---- MODULE Spec2Model ----
(***************************************************************************)
(* State-machine model of the ROI calculator widget                        *)
(* (src/src/components/ROICalculator.tsx).                                 *)
(*                                                                         *)
(* The widget keeps four sections of numeric input fields, a stored impact *)
(* per section, the active tab and a results-shown flag.  The impacts are  *)
(* computed with JavaScript Number arithmetic (IEEE 754 binary64), which   *)
(* is modelled here bit-exactly on multi-limb naturals because TLC's       *)
(* integers are 32 bits wide.                                              *)
(***************************************************************************)
EXTENDS Integers, Sequences, FiniteSets, TLC

(***************************************************************************)
(* Multi-limb naturals: little-endian sequences of limbs below LimbBase,   *)
(* without high zero limbs; << >> is zero.                                 *)
(***************************************************************************)
LimbBits == 15

LimbBase == 2 ^ LimbBits

RECURSIVE BFromInt(_)
BFromInt(n) ==
  IF n = 0 THEN << >> ELSE <<n % LimbBase>> \o BFromInt(n \div LimbBase)

RECURSIVE BToInt(_)
BToInt(a) ==
  IF a = << >> THEN 0 ELSE a[1] + LimbBase * BToInt(Tail(a))

RECURSIVE BTrim(_)
BTrim(a) ==
  IF a # << >> /\ a[Len(a)] = 0 THEN BTrim(SubSeq(a, 1, Len(a) - 1)) ELSE a

RECURSIVE BMulSmall(_, _, _)
BMulSmall(a, k, carry) ==
  IF a = << >>
    THEN BFromInt(carry)
    ELSE LET t == a[1] * k + carry
         IN  <<t % LimbBase>> \o BMulSmall(Tail(a), k, t \div LimbBase)

RECURSIVE BAdd(_, _, _)
BAdd(a, b, carry) ==
  IF a = << >> /\ b = << >>
    THEN BFromInt(carry)
    ELSE LET x == IF a = << >> THEN 0 ELSE a[1]
             y == IF b = << >> THEN 0 ELSE b[1]
             t == x + y + carry
         IN  <<t % LimbBase>>
               \o BAdd(IF a = << >> THEN a ELSE Tail(a),
                       IF b = << >> THEN b ELSE Tail(b),
                       t \div LimbBase)

RECURSIVE BMul(_, _)
BMul(a, b) ==
  IF a = << >> \/ b = << >>
    THEN << >>
    ELSE BTrim(BAdd(BMulSmall(a, b[1], 0), <<0>> \o BMul(a, Tail(b)), 0))

\* a divided by the single limb d: quotient limbs (untrimmed) and remainder
RECURSIVE BDivSmall(_, _)
BDivSmall(a, d) ==
  IF a = << >>
    THEN [q |-> << >>, r |-> 0]
    ELSE LET hi == BDivSmall(Tail(a), d)
             t  == hi.r * LimbBase + a[1]
         IN  [q |-> <<t \div d>> \o hi.q, r |-> t % d]

RECURSIVE BitLenInt(_)
BitLenInt(n) == IF n = 0 THEN 0 ELSE 1 + BitLenInt(n \div 2)

BBitLen(a) ==
  IF a = << >> THEN 0 ELSE LimbBits * (Len(a) - 1) + BitLenInt(a[Len(a)])

\* a shifted right by n bits; sticky tells whether a non-zero bit was lost
BShr(a, n) ==
  LET w    == IF n \div LimbBits > Len(a) THEN Len(a) ELSE n \div LimbBits
      r    == IF n \div LimbBits > Len(a) THEN 0 ELSE n % LimbBits
      lost == SubSeq(a, 1, w)
      d    == BDivSmall(SubSeq(a, w + 1, Len(a)), 2 ^ r)
  IN  [q |-> BTrim(d.q),
       sticky |-> (\E i \in 1..Len(lost) : lost[i] # 0) \/ d.r # 0]

BShl(a, n) ==
  IF a = << >>
    THEN << >>
    ELSE [i \in 1..(n \div LimbBits) |-> 0]
           \o BMulSmall(a, 2 ^ (n % LimbBits), 0)

(***************************************************************************)
(* Non-negative binary64 values as [m, e] with value m * 2^e and m of at   *)
(* most MantissaBits bits.  Subnormals, infinities and NaN do not arise    *)
(* for the magnitudes the model feeds in.                                  *)
(***************************************************************************)
MantissaBits == 53

\* round-to-nearest, ties-to-even of the exact value M * 2^E
FRound(M, E) ==
  LET L == BBitLen(M)
  IN  IF L <= MantissaBits
        THEN [m |-> M, e |-> E]
        ELSE LET s   == L - MantissaBits
                 x   == BShr(M, s - 1)
                 h   == BDivSmall(x.q, 2)
                 q   == BTrim(h.q)
                 up  == h.r = 1 /\ (x.sticky \/ q[1] % 2 = 1)
                 m   == IF up THEN BTrim(BAdd(q, <<1>>, 0)) ELSE q
             IN  IF BBitLen(m) > MantissaBits
                   THEN [m |-> BShr(m, 1).q, e |-> E + s + 1]
                   ELSE [m |-> m, e |-> E + s]

\* Number(n) for a natural n
FromInt(n) == [m |-> BFromInt(n), e |-> 0]

\* x * y
FMul(x, y) == FRound(BMul(x.m, y.m), x.e + y.e)

\* x / y for a divisor whose mantissa is a single limb
FDiv(x, y) ==
  IF x.m = << >>
    THEN x
    ELSE LET k  == MantissaBits + 2 + LimbBits
             d  == BDivSmall(BShl(x.m, k), y.m[1])
             M  == BAdd(BShl(BTrim(d.q), 1), IF d.r # 0 THEN <<1>> ELSE << >>, 0)
         IN  FRound(BTrim(M), x.e - y.e - k - 1)

\* Math.round(x): nearest integer, ties towards +infinity
MathRound(x) ==
  IF x.m = << >> THEN 0
  ELSE IF x.e >= 0 THEN BToInt(BShl(x.m, x.e))
  ELSE LET q1 == BShr(x.m, (-x.e) - 1).q
       IN  BToInt(BTrim(BDivSmall(BAdd(q1, <<1>>, 0), 2).q))


(***************************************************************************)
(* The calculator's state                                                  *)
(***************************************************************************)
\* the sections in declaration order
sections == <<"adminWaste", "siloedCollaboration", "missedUpgrades", "donorLapse">>

SectionNames == {sections[i] : i \in 1..Len(sections)}

\* the input fields of each section (every key except impact)
InputFields ==
  [adminWaste          |-> {"annualSalary", "hoursPerWeek", "numberOfMGOs"},
   siloedCollaboration |-> {"annualSalary", "hoursWasted", "numberOfUsers"},
   missedUpgrades      |-> {"upgradableDonors", "averageGiftSize",
                            "upgradePercentage", "realizationRate"},
   donorLapse          |-> {"lapsedDonors", "averageGift", "numberOfPortfolios"}]

\* an input field is number | '': '' is the empty text, a number n is <<n>>
Unset == << >>

Num(n) == <<n>>

VARIABLES activeTab, calculatedResults, showResults, calculatorState

\* the AnimatedCounter that displays totalImpact: the number it shows, and the
\* animation frame it has requested from the browser, if any
VARIABLES count, animationFrame

\* a page with a second widget: which of the two the variables above hold,
\* and the state of the other one, if there is one
VARIABLES focus, otherWidget

vars ==
  <<activeTab, calculatedResults, showResults, calculatorState,
    count, animationFrame, focus, otherWidget>>

counterVars == <<count, animationFrame>>

pageVars == <<focus, otherWidget>>

NoFrame == << >>

NoWidget == << >>

InitialCalculatorState ==
  [s \in SectionNames |->
     [k \in InputFields[s] \cup {"impact"} |->
        IF k = "impact" THEN 0 ELSE Unset]]

Init ==
  /\ activeTab = "adminWaste"
  /\ calculatedResults = FALSE
  /\ showResults = FALSE
  /\ calculatorState = InitialCalculatorState
  /\ count = 0
  /\ animationFrame = NoFrame
  /\ focus = 1
  /\ otherWidget = NoWidget

(***************************************************************************)
(* Parsing of the text typed into a field.  A text is a sequence of        *)
(* one-character strings.                                                  *)
(***************************************************************************)
Digits == <<"0", "1", "2", "3", "4", "5", "6", "7", "8", "9">>

IsDigit(c) == \E i \in 1..Len(Digits) : Digits[i] = c

DigitValue(c) == (CHOOSE i \in 1..Len(Digits) : Digits[i] = c) - 1

\* value.replace(/[^\d]/g, '')
StripNonDigits(value) == SelectSeq(value, IsDigit)

\* Number(digitsOnly) for a non-empty string of decimal digits
RECURSIVE NumberOfDigitString(_)
NumberOfDigitString(d) ==
  IF d = << >>
    THEN 0
    ELSE DigitValue(d[Len(d)]) + 10 * NumberOfDigitString(SubSeq(d, 1, Len(d) - 1))

\* variant: a leading minus sign is kept (Number(value) on the raw text)
parseFormattedNumber_keepsSign(value) ==
  IF value = << >>
    THEN Unset
    ELSE LET digitsOnly == StripNonDigits(value)
         IN  IF digitsOnly = << >>
               THEN Unset
               ELSE IF Head(value) = "-"
                      THEN Num(0 - NumberOfDigitString(digitsOnly))
                      ELSE Num(NumberOfDigitString(digitsOnly))

\* variant: a text without digits is stored as 0 (Number('') is 0)
parseFormattedNumber_emptyIsZero(value) ==
  IF value = << >>
    THEN Unset
    ELSE Num(NumberOfDigitString(StripNonDigits(value)))

parseFormattedNumber(value) ==
  IF value = << >>
    THEN Unset
    ELSE LET digitsOnly == StripNonDigits(value)
         IN  IF digitsOnly = << >> THEN Unset ELSE Num(NumberOfDigitString(digitsOnly))

(***************************************************************************)
(* Derived values                                                          *)
(***************************************************************************)
\* variant: the last section is left out of the total
totalImpact_withoutDonorLapse ==
  calculatorState.adminWaste.impact + calculatorState.siloedCollaboration.impact
    + calculatorState.missedUpgrades.impact

totalImpact ==
  calculatorState.adminWaste.impact + calculatorState.siloedCollaboration.impact
    + calculatorState.missedUpgrades.impact + calculatorState.donorLapse.impact

wastedAnnualSalarySpend ==
  calculatorState.adminWaste.impact + calculatorState.siloedCollaboration.impact

opportunityCost ==
  calculatorState.missedUpgrades.impact + calculatorState.donorLapse.impact

\* variant: the entries are not filtered, zero impacts stay in the chart
chartData_unfiltered ==
  << [name |-> "Manual Admin Waste",
      value |-> calculatorState.adminWaste.impact,
      color |-> "#6A1B9A",
      category |-> "Wasted Annual Salary Spend"],
     [name |-> "Siloed Collaboration",
      value |-> calculatorState.siloedCollaboration.impact,
      color |-> "#8E24AA",
      category |-> "Wasted Annual Salary Spend"],
     [name |-> "Missed Upgrades",
      value |-> calculatorState.missedUpgrades.impact,
      color |-> "#AB47BC",
      category |-> "Opportunity Cost"],
     [name |-> "Donor Lapse",
      value |-> calculatorState.donorLapse.impact,
      color |-> "#42F2F7",
      category |-> "Opportunity Cost"] >>

chartData ==
  SelectSeq(
    << [name |-> "Manual Admin Waste",
        value |-> calculatorState.adminWaste.impact,
        color |-> "#6A1B9A",
        category |-> "Wasted Annual Salary Spend"],
       [name |-> "Siloed Collaboration",
        value |-> calculatorState.siloedCollaboration.impact,
        color |-> "#8E24AA",
        category |-> "Wasted Annual Salary Spend"],
       [name |-> "Missed Upgrades",
        value |-> calculatorState.missedUpgrades.impact,
        color |-> "#AB47BC",
        category |-> "Opportunity Cost"],
       [name |-> "Donor Lapse",
        value |-> calculatorState.donorLapse.impact,
        color |-> "#42F2F7",
        category |-> "Opportunity Cost"] >>,
    LAMBDA item : item.value > 0)

\* variant: a field holding 0 is taken for empty (a falsy test)
isSectionComplete_falsy(section) ==
  LET sectionData == calculatorState[section]
  IN  \A key \in {k \in DOMAIN sectionData : k # "impact"} :
        sectionData[key] # Unset /\ sectionData[key] # Num(0)

isSectionComplete(section) ==
  LET sectionData == calculatorState[section]
  IN  \A key \in {k \in DOMAIN sectionData : k # "impact"} :
        sectionData[key] # Unset

allSectionsCompleted ==
  /\ isSectionComplete("adminWaste")
  /\ isSectionComplete("siloedCollaboration")
  /\ isSectionComplete("missedUpgrades")
  /\ isSectionComplete("donorLapse")

(***************************************************************************)
(* Navigation.  Indexes are 0-based as in the code; NotFound is indexOf's  *)
(* -1 and the value a scan yields when its loop ends without returning.    *)
(***************************************************************************)
NotFound == -1

indexOf(seq, x) ==
  IF \E i \in 1..Len(seq) : seq[i] = x
    THEN (CHOOSE i \in 1..Len(seq) : seq[i] = x /\ \A j \in 1..(i - 1) : seq[j] # x) - 1
    ELSE NotFound

\* for (let i = from; i < to; i++) if (!isSectionComplete(sections[i])) return
RECURSIVE ScanIncomplete(_, _)
ScanIncomplete(i, to) ==
  IF ~(i < to) THEN NotFound
  ELSE IF ~isSectionComplete(sections[i + 1]) THEN i
  ELSE ScanIncomplete(i + 1, to)

\* variant: the second loop starts at index 1 and so skips the first section
findNextIncompleteSection_skipFirst ==
  LET currentIndex == indexOf(sections, activeTab)
      after  == ScanIncomplete(currentIndex + 1, Len(sections))
      before == ScanIncomplete(1, currentIndex)
  IN  IF after # NotFound THEN sections[after + 1]
      ELSE IF before # NotFound THEN sections[before + 1]
      ELSE activeTab

findNextIncompleteSection ==
  LET currentIndex == indexOf(sections, activeTab)
      after  == ScanIncomplete(currentIndex + 1, Len(sections))
      before == ScanIncomplete(0, currentIndex)
  IN  IF after # NotFound THEN sections[after + 1]
      ELSE IF before # NotFound THEN sections[before + 1]
      ELSE activeTab

\* the indexes a loop of findNextIncompleteSection passes to
\* isSectionComplete, in order: it stops after the first incomplete one
RECURSIVE ScanExamined(_, _)
ScanExamined(i, to) ==
  IF ~(i < to) THEN << >>
  ELSE IF ~isSectionComplete(sections[i + 1]) THEN <<i>>
  ELSE <<i>> \o ScanExamined(i + 1, to)

\* variant: the second loop runs up to and including the current index
examinedSections_throughCurrent ==
  LET currentIndex == indexOf(sections, activeTab)
      after == ScanExamined(currentIndex + 1, Len(sections))
  IN  IF ScanIncomplete(currentIndex + 1, Len(sections)) # NotFound
        THEN after
        ELSE after \o ScanExamined(0, currentIndex + 1)

\* the indexes findNextIncompleteSection examines before it returns: the
\* second loop runs only when the first has returned nothing
examinedSections ==
  LET currentIndex == indexOf(sections, activeTab)
      after == ScanExamined(currentIndex + 1, Len(sections))
  IN  IF ScanIncomplete(currentIndex + 1, Len(sections)) # NotFound
        THEN after
        ELSE after \o ScanExamined(0, currentIndex)

(***************************************************************************)
(* Handlers                                                                *)
(***************************************************************************)
\* variant: the edited section is rebuilt from the initial state instead of
\* from prev[section]
handleInputChange_resetsSection(section, field, value) ==
  LET numValue == parseFormattedNumber(value)
  IN  /\ calculatorState' =
           [calculatorState EXCEPT
              ![section] = [InitialCalculatorState[section] EXCEPT ![field] = numValue]]
      /\ UNCHANGED <<activeTab, calculatedResults, showResults>>

\* variant: an edit hides the results until the next calculation
handleInputChange_hidesResults(section, field, value) ==
  LET numValue == parseFormattedNumber(value)
  IN  /\ calculatorState' = [calculatorState EXCEPT ![section][field] = numValue]
      /\ showResults' = FALSE
      /\ UNCHANGED <<activeTab, calculatedResults>>

\* variant: an edit also clears the stored impact of the edited section
handleInputChange_clearsImpact(section, field, value) ==
  LET numValue == parseFormattedNumber(value)
  IN  /\ calculatorState' =
           [calculatorState EXCEPT ![section][field] = numValue,
                                   ![section]["impact"] = 0]
      /\ UNCHANGED <<activeTab, calculatedResults, showResults>>

handleInputChange(section, field, value) ==
  LET numValue == parseFormattedNumber(value)
  IN  /\ calculatorState' = [calculatorState EXCEPT ![section][field] = numValue]
      /\ UNCHANGED <<activeTab, calculatedResults, showResults>>

\* Number(v) of a field value: Number('') is 0
Number(v) == IF v = Unset THEN FromInt(0) ELSE FromInt(v[1])

adminWasteImpact ==
  FMul(FMul(FMul(FDiv(Number(calculatorState.adminWaste.annualSalary), FromInt(2080)),
                 Number(calculatorState.adminWaste.hoursPerWeek)),
            FromInt(52)),
       Number(calculatorState.adminWaste.numberOfMGOs))

siloedCollaborationImpact ==
  FMul(FMul(FMul(FDiv(Number(calculatorState.siloedCollaboration.annualSalary), FromInt(2080)),
                 Number(calculatorState.siloedCollaboration.hoursWasted)),
            FromInt(52)),
       Number(calculatorState.siloedCollaboration.numberOfUsers))

missedUpgradesImpact ==
  FMul(FMul(FMul(Number(calculatorState.missedUpgrades.upgradableDonors),
                 Number(calculatorState.missedUpgrades.averageGiftSize)),
            FDiv(Number(calculatorState.missedUpgrades.upgradePercentage), FromInt(100))),
       FDiv(Number(calculatorState.missedUpgrades.realizationRate), FromInt(100)))

lostDonorValue ==
  FMul(Number(calculatorState.donorLapse.lapsedDonors),
       Number(calculatorState.donorLapse.averageGift))

\* variant: the number of portfolios taken as a percentage
donorLapseImpact_asPercentage ==
  FMul(lostDonorValue,
       FDiv(Number(calculatorState.donorLapse.numberOfPortfolios), FromInt(100)))

donorLapseImpact ==
  FMul(lostDonorValue, Number(calculatorState.donorLapse.numberOfPortfolios))

\* variant: the calculation adds to the impacts already stored
calculateImpact_addsToPrevious ==
  /\ calculatorState' =
       [calculatorState EXCEPT
          !["adminWaste"]["impact"] = @ + MathRound(adminWasteImpact),
          !["siloedCollaboration"]["impact"] = @ + MathRound(siloedCollaborationImpact),
          !["missedUpgrades"]["impact"] = @ + MathRound(missedUpgradesImpact),
          !["donorLapse"]["impact"] = @ + MathRound(donorLapseImpact)]
  /\ calculatedResults' = TRUE
  /\ showResults' = TRUE
  /\ UNCHANGED activeTab

\* variant: the calculation forgets the last section
calculateImpact_withoutDonorLapse ==
  /\ calculatorState' =
       [calculatorState EXCEPT
          !["adminWaste"]["impact"] = MathRound(adminWasteImpact),
          !["siloedCollaboration"]["impact"] = MathRound(siloedCollaborationImpact),
          !["missedUpgrades"]["impact"] = MathRound(missedUpgradesImpact)]
  /\ calculatedResults' = TRUE
  /\ showResults' = TRUE
  /\ UNCHANGED activeTab

calculateImpact ==
  /\ calculatorState' =
       [calculatorState EXCEPT
          !["adminWaste"]["impact"] = MathRound(adminWasteImpact),
          !["siloedCollaboration"]["impact"] = MathRound(siloedCollaborationImpact),
          !["missedUpgrades"]["impact"] = MathRound(missedUpgradesImpact),
          !["donorLapse"]["impact"] = MathRound(donorLapseImpact)]
  /\ calculatedResults' = TRUE
  /\ showResults' = TRUE
  /\ UNCHANGED activeTab

\* variant: Next opens the section after the current one, complete or not
handleNextClick_nextInOrder ==
  LET currentIndex == indexOf(sections, activeTab)
      nextSection == sections[((currentIndex + 1) % Len(sections)) + 1]
  IN  /\ activeTab' = nextSection
      /\ UNCHANGED <<calculatedResults, showResults, calculatorState>>

handleNextClick ==
  LET nextSection == findNextIncompleteSection
  IN  /\ activeTab' = nextSection
      /\ UNCHANGED <<calculatedResults, showResults, calculatorState>>

\* Tabs onValueChange
setActiveTab(value) ==
  /\ activeTab' = value
  /\ UNCHANGED <<calculatedResults, showResults, calculatorState>>

(***************************************************************************)
(* The button under the tabs: Next while some section is incomplete,       *)
(* Calculate ROI once all are complete.                                    *)
(***************************************************************************)
\* variant: the Next button is shown only until results exist
NextButtonShown_untilResults == ~showResults

NextButtonShown == ~allSectionsCompleted

CalculateButtonShown == ~NextButtonShown

ClickNext == NextButtonShown /\ handleNextClick

ClickCalculate == CalculateButtonShown /\ calculateImpact


(***************************************************************************)
(* The texts typed into each field.  Every field can also be cleared.      *)
(***************************************************************************)
EmptyText == << >>

TypedTexts ==
  [adminWaste |->
     [annualSalary |-> {<<"1", "2", "5", ",", "0", "0", "0">>},
      hoursPerWeek |-> {<<"1", "5">>, <<"n", "/", "a">>},
      numberOfMGOs |-> {<<"-", "4">>, <<"0">>}],
   siloedCollaboration |->
     [annualSalary |-> {<<"$", "9", "0", "0", "0", "0">>},
      hoursWasted |-> {<<"5">>},
      numberOfUsers |-> {<<"1", "0">>}],
   missedUpgrades |->
     [upgradableDonors |-> {<<"2", "0", "0">>},
      averageGiftSize |-> {<<"5", ",", "0", "0", "0">>},
      upgradePercentage |-> {<<"1", "0", "%">>},
      realizationRate |-> {<<"5", "0">>}],
   donorLapse |->
     [lapsedDonors |-> {<<"1", "5">>},
      averageGift |-> {<<"1", "0", "0", "0", "0">>},
      numberOfPortfolios |-> {<<"2">>}]]

TypeInput ==
  \E section \in SectionNames :
    \E field \in InputFields[section] :
      \E value \in TypedTexts[section][field] \cup {EmptyText} :
        handleInputChange(section, field, value)

SwitchTab == \E value \in SectionNames : setActiveTab(value)

\* the counter is display only and the page holds one widget: both are left
\* out of this specification
Next ==
  \/ ClickNext /\ UNCHANGED <<counterVars, pageVars>>
  \/ ClickCalculate /\ UNCHANGED <<counterVars, pageVars>>
  \/ TypeInput /\ UNCHANGED <<counterVars, pageVars>>
  \/ SwitchTab /\ UNCHANGED <<counterVars, pageVars>>

Spec == Init /\ [][Next]_vars


(***************************************************************************)
(* Free-form typing into the fields of one section: every text over a      *)
(* small alphabet up to MaxTextLen characters, and some longer samples.    *)
(***************************************************************************)
MaxTextLen == 2

TextAlphabet == {"0", "5", ","}

RECURSIVE TextsOfLength(_)
TextsOfLength(n) ==
  IF n = 0
    THEN {<< >>}
    ELSE {t \o <<c>> : t \in TextsOfLength(n - 1), c \in TextAlphabet}

SampleTexts ==
  {<<"1", ",", "2", "5", "0", "a", "b", "c">>,
   <<"a", "b", "c">>,
   <<"1", "2", ".", "5">>,
   <<"-", "7">>}

RawTexts == UNION {TextsOfLength(n) : n \in 0..MaxTextLen} \cup SampleTexts

TypeRawText ==
  \E field \in InputFields["adminWaste"] :
    \E value \in RawTexts :
      handleInputChange("adminWaste", field, value)

NextInput == TypeRawText /\ UNCHANGED <<counterVars, pageVars>>

SpecInput == Init /\ [][NextInput]_vars

(***************************************************************************)
(* The calculation on a filled-in form: every field has been typed, with   *)
(* the numbers below, and nothing has been calculated yet.                 *)
(***************************************************************************)
MaxPortfolios == 2

RECURSIVE DecimalText(_)
DecimalText(n) ==
  IF n < 10 THEN <<Digits[n + 1]>> ELSE DecimalText(n \div 10) \o <<Digits[(n % 10) + 1]>>

\* the field value after typing the number n
Typed(n) == parseFormattedNumber(DecimalText(n))

FilledAdminWaste ==
  {[annualSalary |-> Typed(a), hoursPerWeek |-> Typed(h), numberOfMGOs |-> Typed(m),
    impact |-> 0] :
     a \in {125000, 40060}, h \in {15, 1}, m \in {4, 1}}

FilledSiloedCollaboration ==
  {[annualSalary |-> Typed(a), hoursWasted |-> Typed(h), numberOfUsers |-> Typed(u),
    impact |-> 0] :
     a \in {90000, 40030}, h \in {15}, u \in {2}}

FilledMissedUpgrades ==
  {[upgradableDonors |-> Typed(d), averageGiftSize |-> Typed(g),
    upgradePercentage |-> Typed(p), realizationRate |-> Typed(r), impact |-> 0] :
     d \in {200, 50}, g \in {5000, 25}, p \in {10, 2}, r \in {50, 58}}

FilledDonorLapse ==
  {[lapsedDonors |-> Typed(l), averageGift |-> Typed(g), numberOfPortfolios |-> Typed(n),
    impact |-> 0] :
     l \in {15, 0}, g \in {10000, 1}, n \in 0..MaxPortfolios}

InitCalc ==
  /\ activeTab = "donorLapse"
  /\ calculatedResults = FALSE
  /\ showResults = FALSE
  /\ \E aw \in FilledAdminWaste, sc \in FilledSiloedCollaboration,
        mu \in FilledMissedUpgrades, dl \in FilledDonorLapse :
       calculatorState =
         [s \in SectionNames |->
            CASE s = "adminWaste" -> aw
              [] s = "siloedCollaboration" -> sc
              [] s = "missedUpgrades" -> mu
              [] s = "donorLapse" -> dl]
  /\ count = 0
  /\ animationFrame = NoFrame
  /\ focus = 1
  /\ otherWidget = NoWidget

NextCalc == ClickCalculate /\ UNCHANGED <<counterVars, pageVars>>

SpecCalc == InitCalc /\ [][NextCalc]_vars

(***************************************************************************)
(* Re-editing a filled-in form: every field has been typed, the fields of  *)
(* the first section are retyped or cleared, the tabs are used and the     *)
(* calculation is run, any number of times in any order.                   *)
(***************************************************************************)
FilledForm ==
  [adminWaste |->
     [annualSalary |-> Typed(40060), hoursPerWeek |-> Typed(1),
      numberOfMGOs |-> Typed(1), impact |-> 0],
   siloedCollaboration |->
     [annualSalary |-> Typed(40030), hoursWasted |-> Typed(15),
      numberOfUsers |-> Typed(2), impact |-> 0],
   missedUpgrades |->
     [upgradableDonors |-> Typed(50), averageGiftSize |-> Typed(25),
      upgradePercentage |-> Typed(2), realizationRate |-> Typed(58), impact |-> 0],
   donorLapse |->
     [lapsedDonors |-> Typed(15), averageGift |-> Typed(10000),
      numberOfPortfolios |-> Typed(2), impact |-> 0]]

RetypedTexts ==
  [annualSalary |-> {<<"4", "0", "0", "6", "0">>, <<"1", "2", "5", ",", "0", "0", "0">>},
   hoursPerWeek |-> {<<"1">>, <<"1", "5">>},
   numberOfMGOs |-> {<<"1">>, <<"0">>}]

InitRecalc ==
  /\ activeTab = "adminWaste"
  /\ calculatedResults = FALSE
  /\ showResults = FALSE
  /\ calculatorState = FilledForm
  /\ count = 0
  /\ animationFrame = NoFrame
  /\ focus = 1
  /\ otherWidget = NoWidget

RetypeAdminWaste(fields) ==
  \E field \in fields :
    \E value \in RetypedTexts[field] \cup {EmptyText} :
      handleInputChange("adminWaste", field, value)

NextRecalc ==
  \/ ClickNext /\ UNCHANGED <<counterVars, pageVars>>
  \/ ClickCalculate /\ UNCHANGED <<counterVars, pageVars>>
  \/ RetypeAdminWaste(InputFields["adminWaste"]) /\ UNCHANGED <<counterVars, pageVars>>
  \/ SwitchTab /\ UNCHANGED <<counterVars, pageVars>>

SpecRecalc == InitRecalc /\ [][NextRecalc]_vars

(***************************************************************************)
(* AnimatedCounter, rendered with value = totalImpact while the results    *)
(* are on show.  Time is counted in ticks, TicksPerAnimation of them to    *)
(* the duration of an animation; a requested frame carries the value its   *)
(* effect was started with and the time from the start of the animation to *)
(* the last frame, unset while startTime is still null.  The effect that   *)
(* follows a click is run before the browser handles anything else.        *)
(***************************************************************************)
TicksPerAnimation == 4

MaxFrameGap == 2

duration == TicksPerAnimation

\* Math.floor(easeOutQuart(elapsed / duration) * value), with
\* easeOutQuart(t) = 1 - (1 - t)^4
easedCount(elapsed, value) ==
  (value * (duration ^ 4 - (duration - elapsed) ^ 4)) \div (duration ^ 4)

\* the render that follows a step to total `value`: the counter is mounted
\* with count 0 if the results were not on show; the effect runs if it was
\* just mounted or its value has changed, after the cleanup of the effect
\* before it, which cancels the frame that one had requested
AnimatedCounterEffect(value) ==
  IF showResults /\ value = totalImpact
    THEN UNCHANGED <<count, animationFrame>>
    ELSE IF value = 0
      THEN /\ count' = 0
           /\ animationFrame' = NoFrame
      ELSE /\ count' = IF showResults THEN count ELSE 0
           /\ animationFrame' = <<[value |-> value, elapsed |-> Unset]>>

\* the browser runs the requested frame, gap ticks after the frame before
animateValue ==
  /\ animationFrame # NoFrame
  /\ \E gap \in 1..MaxFrameGap :
       LET value == animationFrame[1].value
           elapsed == IF animationFrame[1].elapsed = Unset
                        THEN 0
                        ELSE animationFrame[1].elapsed[1] + gap
       IN  IF elapsed < duration
             THEN /\ count' = easedCount(elapsed, value)
                  /\ animationFrame' = <<[value |-> value, elapsed |-> Num(elapsed)]>>
             ELSE /\ count' = value
                  /\ animationFrame' = NoFrame
  /\ UNCHANGED <<activeTab, calculatedResults, showResults, calculatorState>>

CounterForm ==
  [adminWaste |->
     [annualSalary |-> Typed(125000), hoursPerWeek |-> Typed(15),
      numberOfMGOs |-> Typed(4), impact |-> 0],
   siloedCollaboration |->
     [annualSalary |-> Typed(90000), hoursWasted |-> Typed(5),
      numberOfUsers |-> Typed(0), impact |-> 0],
   missedUpgrades |->
     [upgradableDonors |-> Typed(0), averageGiftSize |-> Typed(5000),
      upgradePercentage |-> Typed(10), realizationRate |-> Typed(50), impact |-> 0],
   donorLapse |->
     [lapsedDonors |-> Typed(15), averageGift |-> Typed(10000),
      numberOfPortfolios |-> Typed(2), impact |-> 0]]

InitCounter ==
  /\ activeTab = "adminWaste"
  /\ calculatedResults = FALSE
  /\ showResults = FALSE
  /\ calculatorState = CounterForm
  /\ count = 0
  /\ animationFrame = NoFrame
  /\ focus = 1
  /\ otherWidget = NoWidget

\* the two fields that are retyped: each switches one impact to 0 and back
TypeCounterInput ==
  \/ \E value \in {<<"4">>, <<"0">>, EmptyText} :
       handleInputChange("adminWaste", "numberOfMGOs", value)
  \/ \E value \in {<<"2">>, <<"0">>, EmptyText} :
       handleInputChange("donorLapse", "numberOfPortfolios", value)

\* requestAnimationFrame's callback
RunAnimationFrame == animateValue /\ UNCHANGED pageVars

NextCounter ==
  \/ ClickNext /\ UNCHANGED <<counterVars, pageVars>>
  \/ ClickCalculate /\ AnimatedCounterEffect(totalImpact') /\ UNCHANGED pageVars
  \/ TypeCounterInput /\ UNCHANGED <<counterVars, pageVars>>
  \/ RunAnimationFrame

\* the browser keeps running requested animation frames
SpecCounter == InitCounter /\ [][NextCounter]_vars /\ WF_vars(RunAnimationFrame)

(***************************************************************************)
(* A page that renders two widgets.  Each has its own useState cells; the  *)
(* module keeps no mutable state outside the component.  The variables     *)
(* activeTab .. calculatorState hold the state of the widget the user is   *)
(* working in, number `focus`, and otherWidget holds the state of the      *)
(* other one; turning to the other widget exchanges the two and changes    *)
(* neither.  Both forms have been filled in, with different numbers.       *)
(***************************************************************************)
WidgetState ==
  [activeTab |-> activeTab, calculatedResults |-> calculatedResults,
   showResults |-> showResults, calculatorState |-> calculatorState]

\* the state of widget i
Widget(i) == IF focus = i THEN WidgetState ELSE otherWidget[1]

\* variant: calculatorState is one object of the module, shared by the
\* widgets, so the widget turned to shows the numbers of the one left
FocusOtherWidget_sharedCalculatorState ==
  /\ otherWidget # NoWidget
  /\ focus' = 3 - focus
  /\ activeTab' = otherWidget[1].activeTab
  /\ calculatedResults' = otherWidget[1].calculatedResults
  /\ showResults' = otherWidget[1].showResults
  /\ calculatorState' = calculatorState
  /\ otherWidget' = <<WidgetState>>

FocusOtherWidget ==
  /\ otherWidget # NoWidget
  /\ focus' = 3 - focus
  /\ activeTab' = otherWidget[1].activeTab
  /\ calculatedResults' = otherWidget[1].calculatedResults
  /\ showResults' = otherWidget[1].showResults
  /\ calculatorState' = otherWidget[1].calculatorState
  /\ otherWidget' = <<WidgetState>>

InitPage ==
  /\ activeTab = "adminWaste"
  /\ calculatedResults = FALSE
  /\ showResults = FALSE
  /\ calculatorState = FilledForm
  /\ count = 0
  /\ animationFrame = NoFrame
  /\ focus = 1
  /\ otherWidget =
       <<[activeTab |-> "adminWaste", calculatedResults |-> FALSE,
          showResults |-> FALSE, calculatorState |-> CounterForm]>>

NextPage ==
  \/ ClickNext /\ UNCHANGED <<counterVars, pageVars>>
  \/ ClickCalculate /\ UNCHANGED <<counterVars, pageVars>>
  \/ RetypeAdminWaste({"numberOfMGOs"}) /\ UNCHANGED <<counterVars, pageVars>>
  \/ SwitchTab /\ UNCHANGED <<counterVars, pageVars>>
  \/ FocusOtherWidget /\ UNCHANGED counterVars

SpecPage == InitPage /\ [][NextPage]_vars

(***************************************************************************)
(* Vocabulary of the properties                                            *)
(***************************************************************************)
\* a field holds a number (0 included)
IsSet(v) == Len(v) = 1

SectionFilled(s) == \A f \in InputFields[s] : IsSet(calculatorState[s][f])

AllFilled == \A s \in SectionNames : SectionFilled(s)

Impact(s) == calculatorState[s]["impact"]

\* the section k places after the active tab in the cyclic order
CyclicAfter(k) ==
  LET cur == CHOOSE i \in 1..Len(sections) : sections[i] = activeTab
  IN  sections[((cur - 1 + k) % Len(sections)) + 1]

(***************************************************************************)
(* C1: for every combination of completion flags and every current         *)
(* section, findNextIncompleteSection is the first incomplete section of   *)
(* the cyclic scan that starts just after the current section, and the     *)
(* current section when no other section is incomplete.                    *)
(***************************************************************************)
C1_NextIsFirstIncompleteCyclically ==
  LET open == {k \in 1..(Len(sections) - 1) : ~isSectionComplete(CyclicAfter(k))}
  IN  findNextIncompleteSection =
        IF open = {}
          THEN activeTab
          ELSE CyclicAfter(CHOOSE k \in open : \A j \in open : k <= j)

\* completion [true, false, true, true], current = missedUpgrades
C1_Witness ==
  /\ activeTab = "missedUpgrades"
  /\ isSectionComplete("adminWaste")
  /\ ~isSectionComplete("siloedCollaboration")
  /\ isSectionComplete("missedUpgrades")
  /\ isSectionComplete("donorLapse")
  /\ findNextIncompleteSection = "siloedCollaboration"

(***************************************************************************)
(* C2: a section is complete iff every input field of it is set, 0         *)
(* counting as set and the impact playing no part; all sections are        *)
(* complete iff each of the four is.                                       *)
(***************************************************************************)
C2_CompleteIffAllInputsSet ==
  /\ \A s \in SectionNames : isSectionComplete(s) <=> SectionFilled(s)
  /\ allSectionsCompleted <=> \A s \in SectionNames : SectionFilled(s)

\* a complete section holding an entered 0, beside an incomplete section
\* whose impact is positive
C2_Witness ==
  /\ calculatorState.adminWaste.numberOfMGOs = Num(0)
  /\ isSectionComplete("adminWaste")
  /\ \E s \in SectionNames : Impact(s) > 0 /\ ~isSectionComplete(s)

(***************************************************************************)
(* C3: exactly one of the two button actions is available in every state:  *)
(* the calculation when all four sections are complete, the advance to the *)
(* next incomplete section otherwise.                                      *)
(***************************************************************************)
C3_CalculateOnlyWhenAllComplete ==
  /\ [](/\ CalculateButtonShown <=> AllFilled
        /\ NextButtonShown <=> ~AllFilled)
  /\ [][/\ ClickCalculate => AllFilled
        /\ ClickNext => ~AllFilled
        /\ showResults' # showResults => AllFilled]_vars

\* results are on show, so the calculation has run
C3_Witness == showResults /\ AllFilled /\ CalculateButtonShown


\* the positions of the decimal digits of a text
DigitPositions(text) ==
  {i \in 1..Len(text) : text[i] \in {"0", "1", "2", "3", "4", "5", "6", "7", "8", "9"}}

DecimalDigit(c) ==
  CASE c = "0" -> 0 [] c = "1" -> 1 [] c = "2" -> 2 [] c = "3" -> 3 [] c = "4" -> 4
    [] c = "5" -> 5 [] c = "6" -> 6 [] c = "7" -> 7 [] c = "8" -> 8 [] c = "9" -> 9

\* each digit weighs 10 to the number of digits to its right
RECURSIVE WeightedDigitSum(_, _)
WeightedDigitSum(text, pos) ==
  IF pos = {} THEN 0
  ELSE LET i == CHOOSE y \in pos : TRUE
       IN  DecimalDigit(text[i]) * 10 ^ Cardinality({j \in DigitPositions(text) : j > i})
             + WeightedDigitSum(text, pos \ {i})

DigitsReadInBase10(text) ==
  IF DigitPositions(text) = {}
    THEN Unset
    ELSE Num(WeightedDigitSum(text, DigitPositions(text)))

(***************************************************************************)
(* C4: typing a text into a field stores the number written by the decimal *)
(* digits of the text, all other characters dropped, and leaves the field  *)
(* unset when the text has no digit.                                       *)
(***************************************************************************)
C4_SetFieldStoresDigitsOrUnset ==
  /\ [](/\ parseFormattedNumber(<<"1", ",", "2", "5", "0", "a", "b", "c">>) = Num(1250)
        /\ parseFormattedNumber(<< >>) = Unset
        /\ parseFormattedNumber(<<"a", "b", "c">>) = Unset
        /\ parseFormattedNumber(<<"0">>) = Num(0)
        /\ parseFormattedNumber(<<"1", "2", ".", "5">>) = Num(125)
        /\ parseFormattedNumber(<<"-", "7">>) = Num(7))
  /\ [][\A field \in InputFields["adminWaste"] :
          calculatorState'.adminWaste[field] # calculatorState.adminWaste[field]
            => \A value \in RawTexts :
                 handleInputChange("adminWaste", field, value)
                   => calculatorState'.adminWaste[field] = DigitsReadInBase10(value)]_vars

\* "1,250abc" typed into one field and "0" into another, the third empty
C4_Witness ==
  /\ calculatorState.adminWaste.annualSalary = Num(1250)
  /\ calculatorState.adminWaste.hoursPerWeek = Unset
  /\ calculatorState.adminWaste.numberOfMGOs = Num(0)


(***************************************************************************)
(* Exact arithmetic of the impact formulas                                 *)
(***************************************************************************)
Value(s, f) == IF IsSet(calculatorState[s][f]) THEN calculatorState[s][f][1] ELSE 0

\* num / den rounded to the nearest integer, halves up
RoundHalfUp(num, den) == (2 * num + den) \div (2 * den)

(***************************************************************************)
(* C5: after the calculation AdminWaste.impact is                          *)
(* (annualSalary / 2080) * hoursPerWeek * 52 * numberOfMGOs rounded to the *)
(* nearest integer, halves up, and SiloedCollaboration.impact likewise     *)
(* with hoursWasted and numberOfUsers.                                     *)
(***************************************************************************)
C5_SalaryImpactsAreRoundedFormula ==
  [][ClickCalculate =>
       /\ calculatorState'.adminWaste.impact =
            RoundHalfUp(Value("adminWaste", "annualSalary")
                          * Value("adminWaste", "hoursPerWeek") * 52
                          * Value("adminWaste", "numberOfMGOs"), 2080)
       /\ calculatorState'.siloedCollaboration.impact =
            RoundHalfUp(Value("siloedCollaboration", "annualSalary")
                          * Value("siloedCollaboration", "hoursWasted") * 52
                          * Value("siloedCollaboration", "numberOfUsers"), 2080)]_vars

(***************************************************************************)
(* C6: after the calculation MissedUpgrades.impact is the product of its   *)
(* four inputs divided by 10000, rounded to the nearest integer, halves    *)
(* up.                                                                     *)
(***************************************************************************)
C6_MissedUpgradesIsRoundedFormula ==
  [][ClickCalculate =>
       calculatorState'.missedUpgrades.impact =
         RoundHalfUp(Value("missedUpgrades", "upgradableDonors")
                       * Value("missedUpgrades", "averageGiftSize")
                       * Value("missedUpgrades", "upgradePercentage")
                       * Value("missedUpgrades", "realizationRate"), 10000)]_vars

C8_AggregatesAreSumsOfImpacts ==
  /\ totalImpact = Impact("adminWaste") + Impact("siloedCollaboration")
                     + Impact("missedUpgrades") + Impact("donorLapse")
  /\ wastedAnnualSalarySpend = Impact("adminWaste") + Impact("siloedCollaboration")
  /\ opportunityCost = Impact("missedUpgrades") + Impact("donorLapse")
  /\ wastedAnnualSalarySpend + opportunityCost = totalImpact

\* calculated, with one impact zero and the others positive
C8_Witness ==
  /\ showResults
  /\ Impact("adminWaste") = 0
  /\ Impact("siloedCollaboration") > 0
  /\ Impact("missedUpgrades") > 0
  /\ Impact("donorLapse") > 0
  /\ totalImpact > wastedAnnualSalarySpend

Display ==
  [adminWaste |->
     [name |-> "Manual Admin Waste", category |-> "Wasted Annual Salary Spend"],
   siloedCollaboration |->
     [name |-> "Siloed Collaboration", category |-> "Wasted Annual Salary Spend"],
   missedUpgrades |->
     [name |-> "Missed Upgrades", category |-> "Opportunity Cost"],
   donorLapse |->
     [name |-> "Donor Lapse", category |-> "Opportunity Cost"]]

EntriesOf(s) == {i \in 1..Len(chartData) : chartData[i].name = Display[s].name}

RECURSIVE CategorySum(_, _)
CategorySum(entries, category) ==
  IF entries = << >> THEN 0
  ELSE (IF Head(entries).category = category THEN Head(entries).value ELSE 0)
         + CategorySum(Tail(entries), category)

(***************************************************************************)
(* C9: chartData has exactly one entry for each section of positive impact *)
(* and none for a section of impact 0; an entry carries the section's      *)
(* impact and category, so the entries of a category sum to its subtotal.  *)
(***************************************************************************)
C9_ChartHasPositiveImpactsOnly ==
  /\ \A s \in SectionNames :
       IF Impact(s) > 0
         THEN /\ Cardinality(EntriesOf(s)) = 1
              /\ \A i \in EntriesOf(s) :
                   /\ chartData[i].value = Impact(s)
                   /\ chartData[i].category = Display[s].category
         ELSE EntriesOf(s) = {}
  /\ Len(chartData) = Cardinality({s \in SectionNames : Impact(s) > 0})
  /\ CategorySum(chartData, "Wasted Annual Salary Spend") = wastedAnnualSalarySpend
  /\ CategorySum(chartData, "Opportunity Cost") = opportunityCost

\* calculated with a zero admin-waste impact: three entries, none for it
C9_Witness ==
  /\ showResults
  /\ Impact("adminWaste") = 0
  /\ Len(chartData) = 3
  /\ EntriesOf("adminWaste") = {}

Inputs ==
  [s \in SectionNames |-> [f \in InputFields[s] |-> calculatorState[s][f]]]

Impacts == [s \in SectionNames |-> calculatorState[s]["impact"]]

(***************************************************************************)
(* C10: a step that changes any impact is a calculation: it starts with    *)
(* all sections complete, leaves the input fields and the tab alone, shows *)
(* the results and writes all four impacts from the fields of the state it *)
(* started in.  Edits, tab switches and Next clicks change no impact.      *)
(***************************************************************************)
C10_ImpactsChangeOnlyTogetherInCalculation ==
  [][Impacts' # Impacts =>
       /\ AllFilled
       /\ Inputs' = Inputs
       /\ activeTab' = activeTab
       /\ showResults'
       /\ calculatorState'.adminWaste.impact = MathRound(adminWasteImpact)
       /\ calculatorState'.siloedCollaboration.impact = MathRound(siloedCollaborationImpact)
       /\ calculatorState'.missedUpgrades.impact = MathRound(missedUpgradesImpact)
       /\ calculatorState'.donorLapse.impact = MathRound(donorLapseImpact)]_vars

\* impacts of a calculation still stored after a field was cleared, a tab
\* switched
C10_Witness ==
  /\ showResults
  /\ ~AllFilled
  /\ activeTab = "missedUpgrades"
  /\ \A s \in SectionNames : Impact(s) > 0

\* every stored impact is what the calculation would store from the fields
\* of this state
ImpactsAsCalculated ==
  /\ Impact("adminWaste") = MathRound(adminWasteImpact)
  /\ Impact("siloedCollaboration") = MathRound(siloedCollaborationImpact)
  /\ Impact("missedUpgrades") = MathRound(missedUpgradesImpact)
  /\ Impact("donorLapse") = MathRound(donorLapseImpact)

\* the step ends with every impact being what the calculation computes from
\* the fields of the state the step starts in
ImpactsOfTheseFieldsStored ==
  /\ calculatorState'.adminWaste.impact = MathRound(adminWasteImpact)
  /\ calculatorState'.siloedCollaboration.impact = MathRound(siloedCollaborationImpact)
  /\ calculatorState'.missedUpgrades.impact = MathRound(missedUpgradesImpact)
  /\ calculatorState'.donorLapse.impact = MathRound(donorLapseImpact)

C12_ResultsShownByCalculationAndKept ==
  /\ ~showResults
  /\ calculatorState = InitialCalculatorState
  /\ [][/\ (~showResults /\ showResults') => (AllFilled /\ ClickCalculate)
        /\ showResults => showResults'
        /\ Inputs' # Inputs =>
             /\ Impacts' = Impacts
             /\ totalImpact' = totalImpact
             /\ wastedAnnualSalarySpend' = wastedAnnualSalarySpend
             /\ opportunityCost' = opportunityCost
             /\ chartData' = chartData
             /\ showResults' = showResults]_vars

\* results on show, then the last section made incomplete: its impact, the
\* total and the four chart entries are still those of the calculation
C12_Witness ==
  /\ showResults
  /\ ~SectionFilled("donorLapse")
  /\ Impact("donorLapse") = 300000
  /\ totalImpact = 650000
  /\ Len(chartData) = 4

C14_CalculationIsIdempotent ==
  [][(showResults /\ ClickCalculate) =>
       /\ Impacts' = Impacts
       /\ totalImpact' = totalImpact
       /\ wastedAnnualSalarySpend' = wastedAnnualSalarySpend
       /\ opportunityCost' = opportunityCost
       /\ chartData' = chartData
       /\ UNCHANGED <<activeTab, calculatedResults, showResults>>]_vars

\* calculated once, the Calculate ROI button still there to be clicked
\* again; one impact is 0, so the chart has fewer than four entries
C14_Witness ==
  /\ showResults
  /\ calculatedResults
  /\ CalculateButtonShown
  /\ totalImpact > 0
  /\ Impact("donorLapse") = 0
  /\ Len(chartData) = 3

(***************************************************************************)
(* C15: findNextIncompleteSection ends after examining at most the three   *)
(* other sections, each at most once and never the current one, in cyclic  *)
(* order from the section after the current one with none skipped at the   *)
(* wrap: from donorLapse it examines adminWaste first, from adminWaste     *)
(* siloedCollaboration first.  It stops at the first incomplete section    *)
(* and returns it, or the current section when it has found none.          *)
(***************************************************************************)
C15_ScanWrapsOnceWithoutSkipping ==
  LET currentIndex == indexOf(sections, activeTab)
      examined == examinedSections
      n == Len(examined)
  IN  /\ n \in 1..(Len(sections) - 1)
      /\ \A k \in 1..n : examined[k] = (currentIndex + k) % Len(sections)
      /\ \A k \in 1..n : examined[k] # currentIndex
      /\ \A j, k \in 1..n : j # k => examined[j] # examined[k]
      /\ \A k \in 1..(n - 1) : SectionFilled(sections[examined[k] + 1])
      /\ n < Len(sections) - 1 => ~SectionFilled(sections[examined[n] + 1])
      /\ activeTab = "donorLapse" => examined[1] = 0
      /\ activeTab = "adminWaste" => examined[1] = 1
      /\ findNextIncompleteSection =
           IF ~SectionFilled(sections[examined[n] + 1])
             THEN sections[examined[n] + 1]
             ELSE activeTab

\* from donorLapse, with the first two sections complete and the third not:
\* the scan wraps and examines adminWaste, siloedCollaboration, missedUpgrades
C15_Witness ==
  /\ activeTab = "donorLapse"
  /\ SectionFilled("adminWaste")
  /\ SectionFilled("siloedCollaboration")
  /\ ~SectionFilled("missedUpgrades")
  /\ examinedSections = <<0, 1, 2>>
  /\ findNextIncompleteSection = "missedUpgrades"

\* the input fields whose value the step changes
ChangedFields ==
  {p \in UNION {{<<s, f>> : f \in InputFields[s]} : s \in SectionNames} :
     calculatorState'[p[1]][p[2]] # calculatorState[p[1]][p[2]]}

(***************************************************************************)
(* C16: a step that changes an input field changes exactly one, to unset   *)
(* or to a number, and leaves every other field of every section, all four *)
(* impacts, the active tab and the results flags as they were; a text      *)
(* without a digit typed into a field makes that field unset and does      *)
(* nothing else.                                                           *)
(***************************************************************************)
C16_SetFieldChangesOnlyThatField ==
  [][Inputs' # Inputs =>
       /\ Cardinality(ChangedFields) = 1
       /\ \A p \in ChangedFields :
            \/ calculatorState'[p[1]][p[2]] = Unset
            \/ /\ Len(calculatorState'[p[1]][p[2]]) = 1
               /\ calculatorState'[p[1]][p[2]][1] \in Nat
       /\ \A s \in SectionNames : DOMAIN calculatorState'[s] = DOMAIN calculatorState[s]
       /\ Impacts' = Impacts
       /\ UNCHANGED <<activeTab, calculatedResults, showResults>>
       /\ handleInputChange("adminWaste", "hoursPerWeek", <<"n", "/", "a">>)
            => /\ ChangedFields = {<<"adminWaste", "hoursPerWeek">>}
               /\ calculatorState'.adminWaste.hoursPerWeek = Unset]_vars

\* results calculated, the last tab open, then "n/a" typed over the hours of
\* the first section: the other fields, the impact and the tab are kept
C16_Witness ==
  /\ showResults
  /\ activeTab = "donorLapse"
  /\ calculatorState.adminWaste.hoursPerWeek = Unset
  /\ calculatorState.adminWaste.annualSalary = Num(125000)
  /\ calculatorState.adminWaste.numberOfMGOs = Num(0)
  /\ Impact("adminWaste") = 187500

(***************************************************************************)
(* C17: a Next click changes nothing but the active tab: the input fields, *)
(* the impacts and the results flags stay; the tab it opens is one of the  *)
(* four sections, and is an incomplete section or the tab that was open;   *)
(* it is the tab that was open only when no other section is incomplete.   *)
(***************************************************************************)
C17_NextClickMovesOnlyTheTab ==
  /\ [](/\ findNextIncompleteSection \in SectionNames
        /\ \/ ~SectionFilled(findNextIncompleteSection)
           \/ findNextIncompleteSection = activeTab
        /\ findNextIncompleteSection = activeTab
             => \A s \in SectionNames \ {activeTab} : SectionFilled(s))
  /\ [][ClickNext =>
          /\ Inputs' = Inputs
          /\ Impacts' = Impacts
          /\ UNCHANGED <<calculatedResults, showResults>>
          /\ activeTab' \in SectionNames
          /\ ~SectionFilled(activeTab') \/ activeTab' = activeTab
          /\ \A s \in SectionNames : DOMAIN calculatorState'[s] = DOMAIN calculatorState[s]]_vars

\* results on show and a section emptied since: Next is the button shown,
\* and the tab open is the one incomplete section
C17_Witness ==
  /\ showResults
  /\ NextButtonShown
  /\ activeTab = "siloedCollaboration"
  /\ ~SectionFilled("siloedCollaboration")
  /\ \A s \in SectionNames \ {"siloedCollaboration"} : SectionFilled(s)
  /\ findNextIncompleteSection = activeTab
  /\ totalImpact = 650000

\* the number a field holds in the state the step ends in, unset counting 0
ValueAfter(s, f) ==
  IF Len(calculatorState'[s][f]) = 1 THEN calculatorState'[s][f][1] ELSE 0

(***************************************************************************)
(* C18: the calculation leaves every input field and the active tab as     *)
(* they were, and in the state it ends in each section's impact is the     *)
(* rounded value of the section's formula on the input fields of that same *)
(* state, also when a field was edited just before the click.              *)
(***************************************************************************)
C18_CalculationStoresFormulaOfResultingFields ==
  [][ClickCalculate =>
       /\ Inputs' = Inputs
       /\ activeTab' = activeTab
       /\ calculatorState'.adminWaste.impact =
            RoundHalfUp(ValueAfter("adminWaste", "annualSalary")
                          * ValueAfter("adminWaste", "hoursPerWeek") * 52
                          * ValueAfter("adminWaste", "numberOfMGOs"), 2080)
       /\ calculatorState'.siloedCollaboration.impact =
            RoundHalfUp(ValueAfter("siloedCollaboration", "annualSalary")
                          * ValueAfter("siloedCollaboration", "hoursWasted") * 52
                          * ValueAfter("siloedCollaboration", "numberOfUsers"), 2080)
       /\ calculatorState'.missedUpgrades.impact =
            RoundHalfUp(ValueAfter("missedUpgrades", "upgradableDonors")
                          * ValueAfter("missedUpgrades", "averageGiftSize")
                          * ValueAfter("missedUpgrades", "upgradePercentage")
                          * ValueAfter("missedUpgrades", "realizationRate"), 10000)
       /\ calculatorState'.donorLapse.impact =
            ValueAfter("donorLapse", "lapsedDonors") * ValueAfter("donorLapse", "averageGift")
              * ValueAfter("donorLapse", "numberOfPortfolios")]_vars

\* the totals the calculation can give on the form of SpecCounter
CounterTotals == {0, 187500, 300000, 487500}

\* a step of the animation: the requested frame changes while the total and
\* the results flag do not
FrameStep ==
  /\ animationFrame' # animationFrame
  /\ totalImpact' = totalImpact
  /\ showResults' = showResults

(***************************************************************************)
(* C19: when totalImpact changes the animation under way is cancelled: the *)
(* only frame requested is one for the current total, and a step that      *)
(* changes the counter is a frame for the current total or a reset to 0;   *)
(* with animation frames run fairly, if the total stays at a value from    *)
(* some point on, the counter is at that value from some point on; while   *)
(* an animation is under way the counter is never above the total; and a   *)
(* frame changes neither field nor impact, tab or flag.                    *)
(***************************************************************************)
C19_CounterFollowsTotalImpact ==
  /\ [](animationFrame # NoFrame =>
          showResults /\ animationFrame[1].value = totalImpact)
  /\ [][count' # count =>
          \/ count' = 0
          \/ FrameStep /\ animationFrame[1].value = totalImpact]_vars
  /\ \A v \in CounterTotals :
       <>[](showResults /\ totalImpact = v) => <>[](count = v)
  /\ [](animationFrame # NoFrame => count <= totalImpact)
  /\ [][FrameStep =>
          UNCHANGED <<activeTab, calculatedResults, showResults, calculatorState>>]_vars

====
